---- MODULE Spec2Model ----
(***************************************************************************)
(* Windowed feature extraction of the HIPE power-sensor data:              *)
(*   src/src/main.py             calc_aggregation_datetime,                *)
(*                               remove_machine_off_data,                  *)
(*                               extract_features_from_file, process_file  *)
(*   src/src/custom_features.py  the custom calculators, weekday,          *)
(*                               machine_off                               *)
(*   src/src/config.py           the column sets, thresholds, DST date     *)
(*                                                                         *)
(* A Python str is a sequence of one-character strings, so that slicing    *)
(* (x[:16], x[-3:], x[14:16]) and lexical comparison are computed, not     *)
(* assumed.  A float reading is an integer count of hundredths.            *)
(***************************************************************************)
EXTENDS Integers, Sequences, FiniteSets, TLC

VARIABLES
    \* --- calc_aggregation_datetime applied to readings of a stream
    wpc,          \* "input" | "assigned" | "reassigned"
    inst1, inst2, \* the instants of two readings (inst1 no later than inst2)
    ts1, ts2,     \* their SensorDateTime strings
    aggregation,  \* the aggregation level
    win1, win2,   \* calc_aggregation_datetime of ts1, ts2
    rewin,        \* calc_aggregation_datetime of win1's value
    \* --- machine_off applied to a frame
    mpc,          \* "input" | "masked"
    frame,        \* [columns, rows] : the DataFrame handed to machine_off
    mthreshold,   \* machine_off_threshold
    mask,         \* the result of machine_off
    \* --- the custom calculators applied to a series
    cpc,          \* "input" | "done"
    xs,           \* the values of x
    xkind,        \* "ndarray" | "Series" : the container type of x
    calc,         \* the calculator applied
    cresult,      \* its result
    \* --- extract_features_from_file / process_file on the files of the archive
    ppc,          \* "input" | "extracted" | "processed"
    fileA, fileB, \* two input files that agree on every configured column
    prune_data,   \* prune_data
    pagg,         \* aggregation
    pthreshold,   \* machine_off_threshold
    outA, outB    \* what the call did with fileA, fileB

wvars == <<wpc, inst1, inst2, ts1, ts2, aggregation, win1, win2, rewin>>
mvars == <<mpc, frame, mthreshold, mask>>
cvars == <<cpc, xs, xkind, calc, cresult>>
pvars == <<ppc, fileA, fileB, prune_data, pagg, pthreshold, outA, outB>>

Min(a, b) == IF a <= b THEN a ELSE b
Max(a, b) == IF a >= b THEN a ELSE b

(***************************************************************************)
(* Python str operations                                                   *)
(***************************************************************************)
\* x[:n]
Prefix(x, n) == SubSeq(x, 1, Min(n, Len(x)))
\* x[-n:]
Suffix(x, n) == SubSeq(x, Max(1, Len(x) - n + 1), Len(x))
\* x[a:b], 0 <= a <= b
Slice(x, a, b) == IF a >= Min(b, Len(x)) THEN <<>> ELSE SubSeq(x, a + 1, Min(b, Len(x)))

Digits == <<"0", "1", "2", "3", "4", "5", "6", "7", "8", "9">>
DigitChar(d) == Digits[d + 1]
IsDigit(c) == \E i \in 1..10 : Digits[i] = c
DigitVal(c) == CHOOSE d \in 0..9 : Digits[d + 1] = c

\* str.strip() on the characters that occur here (the blank is the only whitespace)
RECURSIVE LStrip(_)
LStrip(s) == IF s # <<>> /\ Head(s) = " " THEN LStrip(Tail(s)) ELSE s
RECURSIVE RStrip(_)
RStrip(s) == IF s # <<>> /\ s[Len(s)] = " " THEN RStrip(SubSeq(s, 1, Len(s) - 1)) ELSE s

AllDigits(s) == s # <<>> /\ \A i \in 1..Len(s) : IsDigit(s[i])
RECURSIVE DigitsValue(_)
DigitsValue(s) == IF s = <<>> THEN 0 ELSE 10 * DigitsValue(SubSeq(s, 1, Len(s) - 1)) + DigitVal(s[Len(s)])

\* int(s): surrounding whitespace and one sign are accepted, anything else raises ValueError
PyIntBody(s) ==
    LET t == RStrip(LStrip(s))
    IN  IF t # <<>> /\ Head(t) \in {"+", "-"} THEN Tail(t) ELSE t
PyIntOk(s) == AllDigits(PyIntBody(s))
PyInt(s) ==
    LET t == RStrip(LStrip(s))
        v == DigitsValue(PyIntBody(s))
    IN  IF t # <<>> /\ Head(t) = "-" THEN 0 - v ELSE v

RECURSIVE DecDigits(_)
DecDigits(n) == IF n < 10 THEN <<DigitChar(n)>> ELSE DecDigits(n \div 10) \o <<DigitChar(n % 10)>>
\* f'{n}': the zero padding forgotten
FormatUnpadded(n) == IF n < 0 THEN <<"-">> \o DecDigits(0 - n) ELSE DecDigits(n)
\* f'{n:02d}'
Format02d(n) ==
    IF n < 0 THEN <<"-">> \o DecDigits(0 - n)
    ELSE IF n < 10 THEN <<"0">> \o DecDigits(n)
    ELSE DecDigits(n)

\* ord(c) of the characters that occur
Ord(c) ==
    CASE c = " " -> 32 [] c = "+" -> 43 [] c = "-" -> 45 [] c = "." -> 46
      [] c = ":" -> 58 [] c = "T" -> 84 [] c = "x" -> 120
      [] OTHER -> 48 + DigitVal(c)
\* a <= b on Python strings
RECURSIVE LexLeq(_, _)
LexLeq(a, b) ==
    IF a = <<>> THEN TRUE
    ELSE IF b = <<>> THEN FALSE
    ELSE IF Ord(Head(a)) # Ord(Head(b)) THEN Ord(Head(a)) < Ord(Head(b))
    ELSE LexLeq(Tail(a), Tail(b))

(***************************************************************************)
(* config.py                                                               *)
(***************************************************************************)
DATE_CHANGE_WINTER ==
    <<"2","0","1","7","-","1","0","-","2","9","T","0","0",":","0","0",":","0","0",".","0","0","0","+","0","2">>

DATE_COLUMN == "SensorDateTime"
Phases == {"2 phase", "3 phase"}
DATA_COLUMNS ==
    [p \in Phases |->
        IF p = "2 phase" THEN <<"V1_V", "F_Hz", "I1_A", "P_kW", "Q_kvar", "S_kVA", "L1_F">>
        ELSE <<"VAVR_V", "F_Hz", "IAVR_A", "P_kW", "Q_kvar", "S_kVA", "L_F">>]
TARGET_COLUMNS == [p \in Phases |-> <<DATE_COLUMN>> \o DATA_COLUMNS[p]]
\* defaultdict(lambda: 0.0, PickAndPlaceUnit=0.3), in hundredths
MACHINE_OFF_THRESHOLDS(machine) == IF machine = "PickAndPlaceUnit" THEN 30 ELSE 0

Aggregations == {"minute", "10minutes", "15minutes", "1hour", "1day"}

(***************************************************************************)
(* main.py: calc_aggregation_datetime, for one element of the series.      *)
(* The result is [ok |-> TRUE, val |-> the id] or [ok |-> FALSE, err |-> e].*)
(***************************************************************************)
Ok(v) == [ok |-> TRUE, val |-> v]
Raise(e) == [ok |-> FALSE, err |-> e]

AggMinute(x) == Ok(Prefix(x, 16) \o <<":","0","0",".","0","0","0">> \o Suffix(x, 3))
\* the tens digit of the minute zeroed instead of the units digit
Agg10MinutesTens(x) == Ok(Prefix(x, 14) \o <<"0">> \o Slice(x, 15, 16) \o <<":","0","0",".","0","0","0">> \o Suffix(x, 3))
Agg10Minutes(x) == Ok(Prefix(x, 15) \o <<"0",":","0","0",".","0","0","0">> \o Suffix(x, 3))
\* the remainder taken instead of the quotient
QuarterHourRemainder(mm) == (mm % 15) * 15
QuarterHour(mm) == (mm \div 15) * 15
Agg15Minutes(x) ==
    IF PyIntOk(Slice(x, 14, 16))
    THEN Ok(Prefix(x, 14) \o Format02d(QuarterHour(PyInt(Slice(x, 14, 16))))
            \o <<":","0","0",".","0","0","0">> \o Suffix(x, 3))
    ELSE Raise("ValueError")
Agg1Hour(x) == Ok(Prefix(x, 13) \o <<":","0","0",":","0","0",".","0","0","0">> \o Suffix(x, 3))
\* the replacement of the clock-change day left out
ReplaceNothing(v) == v
\* result.replace({DATE_CHANGE_WINTER[:-1] + '1': DATE_CHANGE_WINTER})
ReplaceWinter(v) ==
    IF v = SubSeq(DATE_CHANGE_WINTER, 1, Len(DATE_CHANGE_WINTER) - 1) \o <<"1">>
    THEN DATE_CHANGE_WINTER ELSE v
Agg1Day(x) ==
    Ok(ReplaceWinter(Prefix(x, 11) \o <<"0","0",":","0","0",":","0","0",".","0","0","0">> \o Suffix(x, 3)))

calc_aggregation_datetime(x, agg) ==
    CASE agg = "minute" -> AggMinute(x)
      [] agg = "10minutes" -> Agg10Minutes(x)
      [] agg = "15minutes" -> Agg15Minutes(x)
      [] agg = "1hour" -> Agg1Hour(x)
      [] agg = "1day" -> Agg1Day(x)
      [] OTHER -> Raise("NotImplementedError")

(***************************************************************************)
(* custom_features.py: machine_off.  A frame is [columns, rows]; a row is  *)
(* a function from the frame's columns to values.  The mask is the         *)
(* sequence of the rows' booleans.                                         *)
(***************************************************************************)
Abs(v) == IF v < 0 THEN 0 - v ELSE v
Range(q) == {q[i] : i \in 1..Len(q)}
\* data[cols]: the selection of columns, KeyError when one is not there
HasColumns(data, cols) == cols \subseteq data.columns
\* data[['I1_A', 'I2_A', 'I3_A']].max(axis=1).abs() <= machine_off_threshold
PhaseCurrentsOff(row, threshold) ==
    Abs(Max(row["I1_A"], Max(row["I2_A"], row["I3_A"]))) <= threshold
\* data[[target]].abs() <= machine_off_threshold
SingleCurrentOff(row, target, threshold) == Abs(row[target]) <= threshold

machine_off(data, machine_off_threshold) ==
    IF "I2_A" \in data.columns
    THEN IF HasColumns(data, {"I1_A", "I2_A", "I3_A"})
         THEN Ok([i \in 1..Len(data.rows) |-> PhaseCurrentsOff(data.rows[i], machine_off_threshold)])
         ELSE Raise("KeyError")
    ELSE LET target == IF "IAVR_A" \in data.columns THEN "IAVR_A" ELSE "I1_A"
         IN  IF HasColumns(data, {target})
             THEN Ok([i \in 1..Len(data.rows) |-> SingleCurrentOff(data.rows[i], target, machine_off_threshold)])
             ELSE Raise("KeyError")

(***************************************************************************)
(* main.py: remove_machine_off_data                                        *)
(***************************************************************************)
\* the rows where the mask is set: the negation of line 51 forgotten
RECURSIVE RowsWhereOff(_, _)
RowsWhereOff(rows, off) ==
    IF rows = <<>> THEN <<>>
    ELSE (IF off[1] THEN <<Head(rows)>> ELSE <<>>) \o RowsWhereOff(Tail(rows), Tail(off))
\* data[~data['machine_off']]: the rows where the mask is not set, in order
RECURSIVE RowsWhereNot(_, _)
RowsWhereNot(rows, off) ==
    IF rows = <<>> THEN <<>>
    ELSE (IF off[1] THEN <<>> ELSE <<Head(rows)>>) \o RowsWhereNot(Tail(rows), Tail(off))

\* the mask becomes the last column (a Series, or the one-column frame of
\* machine_off's single-current branch, which pandas stores as that column),
\* the kept rows are selected, and data.columns[:-1] drops the mask again;
\* removed is the count logged at line 50
remove_machine_off_data(data, machine_off_threshold) ==
    LET off == machine_off(data, machine_off_threshold)
    IN  IF ~off.ok THEN Raise(off.err)
        ELSE Ok([columns |-> data.columns,
                 rows |-> RowsWhereNot(data.rows, off.val),
                 removed |-> Cardinality({i \in 1..Len(off.val) : off.val[i]})])

(***************************************************************************)
(* custom_features.py: the custom calculators.  x is its values and the    *)
(* type of its container (what is no ndarray or Series is made an ndarray  *)
(* by np.asarray first).  A result is Ok(v) or Raise(e); v is NaN or        *)
(* Number(w), w an integer, a fraction [n, d] in lowest terms, or for the  *)
(* crest factor the fraction under the square root.                        *)
(***************************************************************************)
NaN == [nan |-> TRUE]
Number(w) == [nan |-> FALSE, number |-> w]
RECURSIVE Gcd(_, _)
Gcd(a, b) == IF b = 0 THEN a ELSE Gcd(b, a % b)
\* n / d, d > 0
Fraction(n, d) == LET g == Gcd(Abs(n), d) IN [n |-> n \div g, d |-> d \div g]
RECURSIVE Sum(_)
Sum(q) == IF q = <<>> THEN 0 ELSE Head(q) + Sum(Tail(q))
SeqMax(q) == CHOOSE v \in Range(q) : \A w \in Range(q) : w <= v
SeqMin(q) == CHOOSE v \in Range(q) : \A w \in Range(q) : v <= w
CountEqual(q, v) == Cardinality({i \in 1..Len(q) : q[i] = v})

\* np.max(x) / np.min(x): an empty ndarray has no maximum (ValueError); an
\* empty Series answers NaN
NpExtreme(x, kind, extreme) ==
    IF x # <<>> THEN Ok(extreme)
    ELSE IF kind = "Series" THEN Ok(NaN) ELSE Raise("ValueError")

crest_factor(x, kind) ==
    IF Len(x) < 1 THEN Ok(NaN)
    ELSE LET peak == SeqMax([i \in 1..Len(x) |-> Abs(x[i])])
             squares == Sum([i \in 1..Len(x) |-> x[i] * x[i]])
         IN  \* max(|x|) / sqrt(mean(x^2)); 0 / 0 is NaN
             IF squares = 0 THEN Ok(NaN)
             ELSE Ok(Number([sqrt_of |-> Fraction(peak * peak * Len(x), squares)]))

\* (x.astype(bool)).mean(): the mean of nothing is NaN
percentage_non_zero_values(x, kind) ==
    IF x = <<>> THEN Ok(NaN)
    ELSE Ok(Number(Fraction(Cardinality({i \in 1..Len(x) : x[i] # 0}), Len(x))))

\* len(np.unique(x))
num_states(x, kind) == Ok(Number(Cardinality(Range(x))))

\* sum(x == maximum) if maximum != np.NaN else np.NaN: the comparison with
\* NaN is always true, so the count is returned whatever the maximum is
num_maxima(x, kind) ==
    LET maximum == NpExtreme(x, kind, IF x = <<>> THEN NaN ELSE SeqMax(x))
    IN  IF ~maximum.ok THEN maximum ELSE Ok(Number(CountEqual(x, maximum.val)))

num_minima(x, kind) ==
    LET minimum == NpExtreme(x, kind, IF x = <<>> THEN NaN ELSE SeqMin(x))
    IN  IF ~minimum.ok THEN minimum ELSE Ok(Number(CountEqual(x, minimum.val)))

linear_weighted_average(x, kind) ==
    LET n == Len(x)
    IN  IF n < 1 THEN Ok(NaN)
        ELSE Ok(Number(Fraction(2 * Sum([i \in 1..n |-> i * x[i]]), n * (n + 1))))

quadratic_weighted_average(x, kind) ==
    LET n == Len(x)
    IN  IF n < 1 THEN Ok(NaN)
        ELSE Ok(Number(Fraction(6 * Sum([i \in 1..n |-> i * i * x[i]]), n * (n + 1) * (2 * n + 1))))

\* number_crossing_m(x, x.mean()) of tsfresh: positive = x > m, and the count
\* of the places where positive changes; x > NaN is False everywhere
number_crossing_mean(x, kind) ==
    LET n == Len(x)
        positive == [i \in 1..n |-> x[i] * n > Sum(x)]
    IN  Ok(Number(Cardinality({i \in 1..(n - 1) : positive[i] # positive[i + 1]})))

Calculators ==
    {"crest_factor", "percentage_non_zero_values", "num_states", "num_maxima", "num_minima",
     "linear_weighted_average", "quadratic_weighted_average", "number_crossing_mean"}

(***************************************************************************)
(* custom_features.py: weekday (dateutil's parse of a window identifier,   *)
(* then the day of the week, Monday = 1)                                   *)
(***************************************************************************)
MonthOffsets == <<0, 3, 2, 5, 0, 3, 5, 1, 4, 6, 2, 4>>
weekday(x) ==
    LET y0 == DigitsValue(Slice(x, 0, 4))
        m == DigitsValue(Slice(x, 5, 7))
        d == DigitsValue(Slice(x, 8, 10))
        y == IF m < 3 THEN y0 - 1 ELSE y0
        dow == (y + y \div 4 - y \div 100 + y \div 400 + MonthOffsets[m] + d) % 7
    IN  IF dow = 0 THEN 7 ELSE dow

(***************************************************************************)
(* main.py: extract_features_from_file                                     *)
(***************************************************************************)
\* the whole frame kept: the narrowing of line 63 left out
NarrowNothing(data, present) == [columns |-> data.columns, rows |-> data.rows]
\* data = data[list(present_columns)]
Narrow(data, present) ==
    [columns |-> present,
     rows |-> [i \in 1..Len(data.rows) |-> [c \in present |-> data.rows[i][c]]]]

\* the least of a non-empty set of strings, and the set in ascending order
LeastOf(S) == CHOOSE a \in S : \A b \in S : LexLeq(a, b)
RECURSIVE Ascending(_)
Ascending(S) == IF S = {} THEN <<>> ELSE <<LeastOf(S)>> \o Ascending(S \ {LeastOf(S)})
\* the values of column c in the rows whose id is w, in the rows' order
RECURSIVE GroupSeries(_, _, _, _)
GroupSeries(rows, ids, w, c) ==
    IF rows = <<>> THEN <<>>
    ELSE (IF Head(ids) = w THEN <<Head(rows)[c]>> ELSE <<>>)
         \o GroupSeries(Tail(rows), Tail(ids), w, c)
\* tsfresh's extract_features(data, column_id='id', ...) and the weekday
\* column of lines 83-84: one row per id, ascending; a row holds, per data
\* column, the series every calculator of `features` is applied to
FeatureMatrix(rows, ids, columns) ==
    LET index == Ascending(Range(ids))
    IN  [k \in 1..Len(index) |->
            [id |-> index[k],
             weekday |-> weekday(index[k]),
             series |-> [c \in columns |-> GroupSeries(rows, ids, index[k], c)]]]

NoFrame == [columns |-> {}, rows |-> <<>>]
Outcome(status, missing, removed, windowed, matrix) ==
    [status |-> status, missing |-> missing, removed |-> removed,
     windowed |-> windowed, matrix |-> matrix]

\* status: "written" (to_csv reached), "skipped" (the return of line 70) or
\* the exception that left the function; missing: the columns logged at line
\* 62; removed: the count logged at line 50 (-1: not pruned); windowed: the
\* frame that reaches line 73; matrix: what to_csv writes
extract_features_from_file(input, agg, target_columns, data_columns, prune, threshold) ==
    LET present == Range(target_columns) \cap input.columns
        missing == Range(target_columns) \ input.columns
        data == Narrow(input, present)
        pruned == IF prune THEN remove_machine_off_data(data, threshold)
                  ELSE Ok([columns |-> data.columns, rows |-> data.rows, removed |-> -1])
    IN  IF ~pruned.ok THEN Outcome(pruned.err, missing, -1, NoFrame, <<>>)
        ELSE LET kept == [columns |-> pruned.val.columns, rows |-> pruned.val.rows]
                 removed == pruned.val.removed
             IN  IF prune /\ Len(kept.rows) = 0
                     THEN Outcome("skipped", missing, removed, kept, <<>>)
                 ELSE IF DATE_COLUMN \notin kept.columns
                     THEN Outcome("KeyError", missing, removed, kept, <<>>)
                 ELSE LET ids == [i \in 1..Len(kept.rows) |->
                                     calc_aggregation_datetime(kept.rows[i][DATE_COLUMN], agg)]
                      IN  IF \E i \in 1..Len(ids) : ~ids[i].ok
                          THEN Outcome((CHOOSE r \in Range(ids) : ~r.ok).err, missing, removed, kept, <<>>)
                          ELSE Outcome("written", missing, removed, kept,
                                       FeatureMatrix(kept.rows, [i \in 1..Len(ids) |-> ids[i].val],
                                                     Range(data_columns) \cap present))

(***************************************************************************)
(* main.py: process_file, for one file of the archive (lines 100-107):     *)
(* the threshold and the phase count come from the file's name.            *)
(***************************************************************************)
process_file(f, agg, prune) ==
    LET machine_off_threshold == MACHINE_OFF_THRESHOLDS(f.machine)
        machine_phase_count == f.phase
    IN  IF machine_phase_count \notin Phases THEN Outcome("KeyError", {}, -1, NoFrame, <<>>)
        ELSE extract_features_from_file(f, agg, TARGET_COLUMNS[machine_phase_count],
                                        DATA_COLUMNS[machine_phase_count], prune,
                                        machine_off_threshold)

(***************************************************************************)
(* The readings of a stream.  The HIPE files (config.py, HIPE_MONTH_FILE:  *)
(* 2017-10-01 .. 2018-01-01) carry local time with its UTC offset: +02     *)
(* until the clock change of 2017-10-29 (DATE_CHANGE_WINTER), 03:00+02 =   *)
(* 02:00+01, and +01 after it.  An instant is counted in minutes from      *)
(* 2017-10-28T00:00+02, with its seconds and milliseconds.                 *)
(***************************************************************************)
FirstHour == 23
LastHour == 28
Transition == 27 * 60
DayMinutes == 24 * 60
Deltas == {0, 7, 15, 60, DayMinutes}
SubMinutes == {<<0, 0>>, <<23, 500>>}

Instants == [m : (FirstHour * 60)..(LastHour * 60 + 59), sub : SubMinutes]
\* chronological order of two instants
NoLater(a, b) ==
    \/ a.m < b.m
    \/ a.m = b.m /\ a.sub[1] < b.sub[1]
    \/ a.m = b.m /\ a.sub[1] = b.sub[1] /\ a.sub[2] <= b.sub[2]

Two(n) == <<DigitChar(n \div 10), DigitChar(n % 10)>>
Three(n) == <<DigitChar(n \div 100), DigitChar((n \div 10) % 10), DigitChar(n % 10)>>
LocalMinutes(i) == IF i.m < Transition THEN i.m ELSE i.m - 60
OffsetSuffix(i) == IF i.m < Transition THEN <<"+","0","2">> ELSE <<"+","0","1">>
\* the SensorDateTime string of an instant: YYYY-MM-DDTHH:MM:SS.mmm+HH
SensorDateTime(i) ==
    LET l == LocalMinutes(i)
    IN  <<"2","0","1","7","-","1","0","-">> \o Two(28 + l \div DayMinutes) \o <<"T">>
        \o Two((l % DayMinutes) \div 60) \o <<":">> \o Two(l % 60) \o <<":">>
        \o Two(i.sub[1]) \o <<".">> \o Three(i.sub[2]) \o OffsetSuffix(i)

\* strings that break the fixed-width format
Malformations == {"missing_offset", "date_only", "no_millis", "minute_not_digits", "seconds_not_digits"}
Malform(t, kind) ==
    CASE kind = "missing_offset" -> Prefix(t, 23)
      [] kind = "date_only" -> Prefix(t, 10)
      [] kind = "no_millis" -> Prefix(t, 19) \o Suffix(t, 3)
      [] kind = "minute_not_digits" -> Prefix(t, 14) \o <<"x","x">> \o Suffix(t, 10)
      [] kind = "seconds_not_digits" -> Prefix(t, 17) \o <<"x","x">> \o Suffix(t, 7)

(***************************************************************************)
(* Frames handed to machine_off                                            *)
(***************************************************************************)
MaxFrameRows == 2
ReadingValues == {-50, 10, 35}
Thresholds == {0, 30}
FrameColumnSets ==
    { {"I1_A", "I2_A", "I3_A"}, {"I1_A", "I2_A", "I3_A", "IAVR_A"},
      {"IAVR_A"}, {"I1_A"}, {"I2_A", "IAVR_A"}, {"P_kW"} }
Frames ==
    UNION { [columns : {cols}, rows : UNION {[1..n -> [cols -> ReadingValues]] : n \in 1..MaxFrameRows}]
            : cols \in FrameColumnSets }

(***************************************************************************)
(* The files of the archive.  A file is named after its machine and phase  *)
(* count; it holds the configured columns of its phase count and the three *)
(* per-phase currents I1_A, I2_A, I3_A, less the columns that are absent.  *)
(* The readings are five minutes apart, from 2017-10-29T01:46:23.500+02.   *)
(***************************************************************************)
MaxRows == 3
Machines == { [machine |-> "PickAndPlaceUnit", phase |-> "2 phase"],
              [machine |-> "ChipPress", phase |-> "3 phase"] }
CurrentColumn(phase) == IF phase = "3 phase" THEN "IAVR_A" ELSE "I1_A"
PhaseCurrents == {"I1_A", "I2_A", "I3_A"}
CurrentValues == {-35, 0, 20}
\* the per-phase currents of a file, row by row
PhaseCurrentPatterns == {"zero", "high", "alternating"}
PhaseCurrentValue(pattern, i) ==
    IF pattern = "high" \/ (pattern = "alternating" /\ i % 2 = 1) THEN 50 ELSE 0
StreamInstant(i) == [m |-> 25 * 60 + 41 + 5 * i, sub |-> <<23, 500>>]

\* the file of machine mach without the columns of absent, whose i-th row has
\* the current current[i] and the per-phase currents I2_A = I3_A of the pattern
MakeFile(mach, absent, current, pattern) ==
    LET cols == (Range(TARGET_COLUMNS[mach.phase]) \cup PhaseCurrents) \ absent
    IN  [machine |-> mach.machine, phase |-> mach.phase, columns |-> cols,
         rows |-> [i \in 1..Len(current) |->
                     [c \in cols |->
                        IF c = DATE_COLUMN THEN SensorDateTime(StreamInstant(i))
                        ELSE IF c \in {CurrentColumn(mach.phase), "I1_A"} THEN current[i]
                        ELSE IF c \in PhaseCurrents THEN PhaseCurrentValue(pattern, i)
                        ELSE 100 + i]]]

(***************************************************************************)
(* The series handed to a calculator                                       *)
(***************************************************************************)
MaxLen == 3
SeriesValues == {-2, 0, 3}
Containers == {"ndarray", "Series"}

NoResult == [ok |-> FALSE, err |-> "none"]

\* the variables of the other parts, at rest
MachineIdle ==
    /\ mpc = "idle" /\ frame = [columns |-> {}, rows |-> <<>>] /\ mthreshold = 0 /\ mask = NoResult
CalcIdle ==
    /\ cpc = "idle" /\ xs = <<>> /\ xkind = "ndarray" /\ calc = "none" /\ cresult = NoResult
NoFile == [machine |-> "none", phase |-> "none", columns |-> {}, rows |-> <<>>]
PipelineIdle ==
    /\ ppc = "idle" /\ fileA = NoFile /\ fileB = NoFile /\ prune_data = FALSE
    /\ pagg = "none" /\ pthreshold = 0 /\ outA = NoResult /\ outB = NoResult
WindowIdle ==
    /\ wpc = "idle" /\ inst1 = [m |-> 0, sub |-> <<0, 0>>] /\ inst2 = inst1
    /\ ts1 = <<>> /\ ts2 = <<>> /\ aggregation = "none"
    /\ win1 = NoResult /\ win2 = NoResult /\ rewin = NoResult

\* two readings of a stream, the first no later than the second
InitWindow ==
    /\ wpc = "input"
    /\ inst1 \in Instants
    /\ \E d \in Deltas, s \in SubMinutes : inst2 = [m |-> inst1.m + d, sub |-> s]
    /\ NoLater(inst1, inst2)
    /\ ts1 = SensorDateTime(inst1)
    /\ ts2 = SensorDateTime(inst2)
    /\ aggregation \in Aggregations
    /\ win1 = NoResult /\ win2 = NoResult /\ rewin = NoResult
    /\ MachineIdle /\ CalcIdle /\ PipelineIdle

\* a stream whose first reading's timestamp is malformed
InitMalformed ==
    /\ wpc = "input"
    /\ inst1 \in Instants
    /\ inst2 = inst1
    /\ \E k \in Malformations : ts1 = Malform(SensorDateTime(inst1), k)
    /\ ts2 = SensorDateTime(inst2)
    /\ aggregation \in Aggregations
    /\ win1 = NoResult /\ win2 = NoResult /\ rewin = NoResult
    /\ MachineIdle /\ CalcIdle /\ PipelineIdle

\* calc_aggregation_datetime(datetimes, aggregation) on the two readings
AssignWindow ==
    /\ wpc = "input"
    /\ win1' = calc_aggregation_datetime(ts1, aggregation)
    /\ win2' = calc_aggregation_datetime(ts2, aggregation)
    /\ wpc' = "assigned"
    /\ UNCHANGED <<inst1, inst2, ts1, ts2, aggregation, rewin, mvars, cvars, pvars>>

\* calc_aggregation_datetime applied to a window identifier it returned
ReassignWindow ==
    /\ wpc = "assigned"
    /\ win1.ok
    /\ rewin' = calc_aggregation_datetime(win1.val, aggregation)
    /\ wpc' = "reassigned"
    /\ UNCHANGED <<inst1, inst2, ts1, ts2, aggregation, win1, win2, mvars, cvars, pvars>>

\* a frame and a threshold
InitMachine ==
    /\ mpc = "input"
    /\ frame \in Frames
    /\ mthreshold \in Thresholds
    /\ mask = NoResult
    /\ WindowIdle /\ CalcIdle /\ PipelineIdle

\* machine_off(data, machine_off_threshold)
MachineOff ==
    /\ mpc = "input"
    /\ mask' = machine_off(frame, mthreshold)
    /\ mpc' = "masked"
    /\ UNCHANGED <<frame, mthreshold, wvars, cvars, pvars>>

\* a file, and a second one that differs from it in I2_A and I3_A only
InitPipeline ==
    /\ ppc = "input"
    /\ \E mach \in Machines, absent \in SUBSET {"I1_A", "IAVR_A", "P_kW"}, n \in 1..MaxRows :
         \E current \in [1..n -> CurrentValues], pa \in {"zero", "alternating"},
            pb \in PhaseCurrentPatterns :
            /\ absent \subseteq Range(DATA_COLUMNS[mach.phase])
            /\ fileA = MakeFile(mach, absent, current, pa)
            /\ fileB = MakeFile(mach, absent, current, pb)
    /\ prune_data = FALSE /\ pagg = "none" /\ pthreshold = 0
    /\ outA = NoResult /\ outB = NoResult
    /\ WindowIdle /\ MachineIdle /\ CalcIdle

\* extract_features_from_file(input_file, output_file, aggregation,
\*     target_columns, data_columns, prune_data, machine_off_threshold)
\* with the columns configured for the file's phase count
ExtractFeaturesFromFile ==
    /\ ppc = "input"
    /\ \E prune \in BOOLEAN, agg \in {"15minutes", "1hour"}, threshold \in Thresholds :
         /\ prune_data' = prune /\ pagg' = agg /\ pthreshold' = threshold
         /\ outA' = extract_features_from_file(fileA, agg, TARGET_COLUMNS[fileA.phase],
                                               DATA_COLUMNS[fileA.phase], prune, threshold)
    /\ ppc' = "extracted"
    /\ UNCHANGED <<fileA, fileB, outB, wvars, mvars, cvars>>

\* process_file(input_file, output_file, aggregation, prune_data) on an
\* archive that holds fileA, and on one that holds fileB
ProcessFile ==
    /\ ppc = "input"
    /\ \E prune \in BOOLEAN, agg \in {"15minutes", "1hour"} :
         /\ prune_data' = prune /\ pagg' = agg
         /\ pthreshold' = MACHINE_OFF_THRESHOLDS(fileA.machine)
         /\ outA' = process_file(fileA, agg, prune)
         /\ outB' = process_file(fileB, agg, prune)
    /\ ppc' = "processed"
    /\ UNCHANGED <<fileA, fileB, wvars, mvars, cvars>>

\* a series, empty or not
InitCalc ==
    /\ cpc = "input"
    /\ xs \in UNION {[1..n -> SeriesValues] : n \in 0..MaxLen}
    /\ xkind \in Containers
    /\ calc = "none" /\ cresult = NoResult
    /\ WindowIdle /\ MachineIdle /\ PipelineIdle

Applied(name, result) ==
    /\ cpc = "input"
    /\ calc' = name
    /\ cresult' = result
    /\ cpc' = "done"
    /\ UNCHANGED <<xs, xkind, wvars, mvars, pvars>>

CrestFactor == Applied("crest_factor", crest_factor(xs, xkind))
PercentageNonZeroValues == Applied("percentage_non_zero_values", percentage_non_zero_values(xs, xkind))
NumStates == Applied("num_states", num_states(xs, xkind))
NumMaxima == Applied("num_maxima", num_maxima(xs, xkind))
NumMinima == Applied("num_minima", num_minima(xs, xkind))
LinearWeightedAverage == Applied("linear_weighted_average", linear_weighted_average(xs, xkind))
QuadraticWeightedAverage == Applied("quadratic_weighted_average", quadratic_weighted_average(xs, xkind))
NumberCrossingMean == Applied("number_crossing_mean", number_crossing_mean(xs, xkind))

vars == <<wvars, mvars, cvars, pvars>>
NextWindow == AssignWindow \/ ReassignWindow
SpecWindow == InitWindow /\ [][NextWindow]_vars
SpecMalformed == InitMalformed /\ [][NextWindow]_vars
NextMachine == MachineOff
SpecMachine == InitMachine /\ [][NextMachine]_vars
NextCalc ==
    \/ CrestFactor \/ PercentageNonZeroValues \/ NumStates \/ NumMaxima \/ NumMinima
    \/ LinearWeightedAverage \/ QuadraticWeightedAverage \/ NumberCrossingMean
SpecCalc == InitCalc /\ [][NextCalc]_vars
NextPipeline == ExtractFeaturesFromFile \/ ProcessFile
SpecPipeline == InitPipeline /\ [][NextPipeline]_vars

(***************************************************************************)
(* Properties of calc_aggregation_datetime                                 *)
(***************************************************************************)
\* the fixed-width pattern YYYY-MM-DDTHH:MM:SS.mmm+HH
Separators == [i \in {5, 8, 11, 14, 17, 20} |->
                 IF i \in {5, 8} THEN "-" ELSE IF i = 11 THEN "T" ELSE IF i = 20 THEN "." ELSE ":"]
WellFormed(t) ==
    /\ Len(t) = 26
    /\ \A i \in 1..23 : IF i \in DOMAIN Separators THEN t[i] = Separators[i] ELSE IsDigit(t[i])
    /\ t[24] \in {"+", "-"} /\ IsDigit(t[25]) /\ IsDigit(t[26])

ClockChangeDate == Prefix(DATE_CHANGE_WINTER, 10)
Midnight == <<"T","0","0",":","0","0",":","0","0",".","0","0","0">>
\* the date, hour and minute an instant shows on the local clock
DateOf(i) == <<"2","0","1","7","-","1","0","-">> \o Two(28 + LocalMinutes(i) \div DayMinutes)
HourOf(i) == (LocalMinutes(i) % DayMinutes) \div 60
MinuteOf(i) == LocalMinutes(i) % 60

\* C1: for every aggregation level and every valid timestamp, the window
\* identifier is a fixed point: calc_aggregation_datetime applied to its own
\* result returns that result.
C1_Idempotent ==
    wpc = "reassigned" => rewin.ok /\ rewin.val = win1.val
\* a reading after the clock change of 2017-10-29, by day: its identifier was
\* rewritten to +02, and assigning again left it there
C1_Witness ==
    /\ wpc = "reassigned" /\ aggregation = "1day"
    /\ Prefix(ts1, 10) = ClockChangeDate /\ Suffix(ts1, 3) = <<"+","0","1">>
    /\ rewin.ok /\ Suffix(rewin.val, 3) = <<"+","0","2">>

\* C2 as stated: whenever the first reading is no later than the second
\* (offsets equal or not), its window identifier is lexically <= the second's.
C2_MonotoneAnyOffset ==
    (wpc # "input" /\ NoLater(inst1, inst2)) =>
        win1.ok /\ win2.ok /\ LexLeq(win1.val, win2.val)
\* C2 amended: the same, for two readings that carry the same offset suffix,
\* and, by day, for two readings of the clock-change date.
C2_MonotoneSameOffset ==
    (/\ wpc # "input" /\ NoLater(inst1, inst2)
     /\ \/ Suffix(ts1, 3) = Suffix(ts2, 3)
        \/ /\ aggregation = "1day"
           /\ Prefix(ts1, 10) = ClockChangeDate /\ Prefix(ts2, 10) = ClockChangeDate) =>
        win1.ok /\ win2.ok /\ LexLeq(win1.val, win2.val)
\* two readings of one offset an hour apart fall into different hours
C2_Witness ==
    /\ wpc = "assigned" /\ aggregation = "1hour"
    /\ Suffix(ts1, 3) = Suffix(ts2, 3) /\ inst1.m < inst2.m
    /\ win1.val # win2.val /\ LexLeq(win1.val, win2.val)

\* C3: by day, a reading of 2017-10-29 maps to '2017-10-29T00:00:00.000+02'
\* whether its offset is +02 or +01, and a reading of any other date maps to
\* its date, 'T00:00:00.000' and its own offset.
C3_DayWindow ==
    (wpc # "input" /\ aggregation = "1day") =>
        \A r \in {<<inst1, win1>>, <<inst2, win2>>} :
            /\ r[2].ok
            /\ r[2].val = IF DateOf(r[1]) = ClockChangeDate THEN DATE_CHANGE_WINTER
                          ELSE DateOf(r[1]) \o Midnight \o OffsetSuffix(r[1])
\* a reading of 2017-10-29 after the change (+01) and one of 2017-10-30 (+01)
C3_Witness ==
    /\ wpc = "assigned" /\ aggregation = "1day"
    /\ DateOf(inst1) = ClockChangeDate /\ OffsetSuffix(inst1) = <<"+","0","1">>
    /\ win1.val = DATE_CHANGE_WINTER
    /\ DateOf(inst2) # ClockChangeDate /\ Suffix(win2.val, 3) = <<"+","0","1">>

\* C4: by quarter hour, the identifier keeps date, hour and offset, zeroes
\* seconds and milliseconds, and its minute field is floor(mm/15)*15 in two
\* digits; the two examples of the specification included.
C4_QuarterHourWindow ==
    /\ (wpc # "input" /\ aggregation = "15minutes") =>
        /\ win1.ok
        /\ win1.val = DateOf(inst1) \o <<"T">> \o Two(HourOf(inst1)) \o <<":">>
                      \o Two(15 * (MinuteOf(inst1) \div 15)) \o <<":","0","0",".","0","0","0">>
                      \o OffsetSuffix(inst1)
        /\ Slice(win1.val, 14, 16) \in {<<"0","0">>, <<"1","5">>, <<"3","0">>, <<"4","5">>}
    /\ calc_aggregation_datetime(
          <<"2","0","1","7","-","1","0","-","0","1","T","0","0",":","0","7",":","2","3",".","5","0","0","+","0","2">>,
          "15minutes")
       = Ok(<<"2","0","1","7","-","1","0","-","0","1","T","0","0",":","0","0",":","0","0",".","0","0","0","+","0","2">>)
    /\ calc_aggregation_datetime(
          <<"2","0","1","7","-","1","0","-","0","1","T","0","0",":","1","7",":","0","0",".","0","0","0","+","0","2">>,
          "15minutes")
       = Ok(<<"2","0","1","7","-","1","0","-","0","1","T","0","0",":","1","5",":","0","0",".","0","0","0","+","0","2">>)
\* minute 59, seconds 23.500: the identifier shows minute 45
C4_Witness ==
    /\ wpc = "assigned" /\ aggregation = "15minutes" /\ MinuteOf(inst1) = 59
    /\ inst1.sub = <<23, 500>>
    /\ Slice(win1.val, 14, 16) = <<"4","5">>

\* C5: a timestamp that breaks the fixed-width format makes the assignment
\* fail; no window identifier is produced from it.
C5_MalformedRejected ==
    (wpc # "input" /\ ~WellFormed(ts1)) => ~win1.ok

(***************************************************************************)
(* Properties of machine_off and of the custom calculators                 *)
(***************************************************************************)
\* C6: with the three per-phase currents, a record is off iff
\* max(|I1_A|, |I2_A|, |I3_A|) <= threshold, whatever the signs.
C6_OffIffMaxAbs ==
    (mpc = "masked" /\ PhaseCurrents \subseteq frame.columns) =>
        /\ mask.ok
        /\ \A i \in 1..Len(frame.rows) :
              mask.val[i] = (Max(Abs(frame.rows[i]["I1_A"]),
                                 Max(Abs(frame.rows[i]["I2_A"]), Abs(frame.rows[i]["I3_A"])))
                             <= mthreshold)

\* C9: every custom calculator answers NaN for the empty series, and none
\* raises.
C9_EmptyGivesNaN ==
    (cpc = "done" /\ xs = <<>>) => cresult.ok /\ cresult.val.nan

(***************************************************************************)
(* Properties of extract_features_from_file and process_file               *)
(***************************************************************************)
Target(f) == Range(TARGET_COLUMNS[f.phase])
\* the rows of f the single current channel of its phase count keeps on
ActiveRows(f, threshold) ==
    {i \in 1..Len(f.rows) : Abs(f.rows[i][CurrentColumn(f.phase)]) > threshold}
\* the j-th element of a set of row numbers
Nth(S, j) == CHOOSE i \in S : Cardinality({k \in S : k <= i}) = j

\* C7: with pruning, the frame that reaches the windowing holds exactly the
\* rows that are not off, in their order, with the columns it had before;
\* the matrix is computed from these rows alone; when no row is left the
\* function returns without an error and writes no matrix.
C7_PruneKeepsActiveRows ==
    (/\ ppc # "input" /\ prune_data
     /\ CurrentColumn(fileA.phase) \in fileA.columns) =>
        LET active == ActiveRows(fileA, pthreshold)
            present == Target(fileA) \cap fileA.columns
        IN  /\ outA.status = IF active = {} THEN "skipped" ELSE "written"
            /\ outA.removed = Len(fileA.rows) - Cardinality(active)
            /\ outA.windowed.columns = present
            /\ Len(outA.windowed.rows) = Cardinality(active)
            /\ \A j \in 1..Cardinality(active) :
                  outA.windowed.rows[j] = [c \in present |-> fileA.rows[Nth(active, j)][c]]
            /\ active = {} => outA.matrix = <<>>
            /\ active # {} =>
                  \A c \in (Range(DATA_COLUMNS[fileA.phase]) \cap present) :
                     /\ \A k \in 1..Len(outA.matrix) : c \in DOMAIN outA.matrix[k].series
                     /\ UNION {Range(outA.matrix[k].series[c]) : k \in 1..Len(outA.matrix)}
                        = {fileA.rows[i][c] : i \in active}
                     /\ Sum([k \in 1..Len(outA.matrix) |-> Len(outA.matrix[k].series[c])])
                        = Cardinality(active)
\* three records in one quarter hour, the second one off: one row, computed
\* from the first and the third record
C7_Witness ==
    /\ ppc = "extracted" /\ prune_data /\ pagg = "15minutes"
    /\ Len(fileA.rows) = 3 /\ "F_Hz" \in fileA.columns
    /\ CurrentColumn(fileA.phase) \in fileA.columns
    /\ ActiveRows(fileA, pthreshold) = {1, 3}
    /\ outA.status = "written" /\ Len(outA.matrix) = 1
    /\ outA.matrix[1].series["F_Hz"] = <<fileA.rows[1]["F_Hz"], fileA.rows[3]["F_Hz"]>>

\* C8: whichever configured channel columns a file lacks, with or without
\* pruning, the call reports them and goes on without an error.
C8_MissingColumnsTolerated ==
    ppc # "input" =>
        /\ outA.status \in {"written", "skipped"}
        /\ outA.missing = Target(fileA) \ fileA.columns

\* two files agree on every configured column of their phase count
AgreeOnTarget(a, b) ==
    /\ a.machine = b.machine /\ a.phase = b.phase /\ a.columns = b.columns
    /\ Len(a.rows) = Len(b.rows)
    /\ \A i \in 1..Len(a.rows) : \A c \in Target(a) \cap a.columns : a.rows[i][c] = b.rows[i][c]

\* C10: in process_file, two files that agree on every configured column and
\* differ in I2_A / I3_A have the same rows removed and the same output.
C10_PhaseCurrentsIgnored ==
    (ppc = "processed" /\ AgreeOnTarget(fileA, fileB)) =>
        /\ outA.status = outB.status
        /\ outA.removed = outB.removed
        /\ outA.windowed = outB.windowed
        /\ outA.matrix = outB.matrix
\* the files differ in I2_A, rows were removed and a matrix was written
C10_Witness ==
    /\ ppc = "processed" /\ prune_data
    /\ \E i \in 1..Len(fileA.rows) : fileA.rows[i]["I2_A"] # fileB.rows[i]["I2_A"]
    /\ outA.status = "written" /\ outA.removed > 0
    /\ outB.status = "written" /\ outB.removed = outA.removed

====
